---- MODULE Spec2Model ----
(***************************************************************************)
(* DagLayout::apply (src/graph/layout.rs, written by update_layout.py and  *)
(* patched by update_layout_clippy.py): layered layout of a workflow DAG.  *)
(*                                                                         *)
(* Phases: graph construction, toposort, longest-path layering, grouping   *)
(* by layer, 4 barycenter passes, coordinate assignment.                   *)
(*                                                                         *)
(* Numbers.  All f32 values of the code are, for the inputs enumerated     *)
(* here, small integers or halves of small integers, so every f32          *)
(* operation is exact.  x is kept as twice its value (field x2), so that   *)
(* the division by 2.0 of start_x is exact for odd widths too; y is kept   *)
(* as is.  A barycenter sum / count is kept as the reduced fraction        *)
(* <<num, den>>; distinct fractions of this size are distinct f32 values.  *)
(***************************************************************************)
EXTENDS Integers, Sequences, FiniteSets, TLC

\* ---------------------------------------------------------------- bounds
MaxNodes == 4
MaxConns == 3

\* ------------------------------------------------------------- constants
NodeWidth == 240
Passes == 4
DefaultLayerSpacing == 140
DefaultNodeSpacing == 60

\* --------------------------------------------------------------- helpers
Range(s) == {s[i] : i \in 1..Len(s)}

Max(S) == CHOOSE m \in S : \A k \in S : k <= m

EmptyMap == [k \in {} |-> 0]

\* all orderings of a finite set, as sequences without repetition
Orderings(S) ==
    {s \in [1..Cardinality(S) -> S] : \A i, j \in 1..Cardinality(S) : i # j => s[i] # s[j]}

\* 0-based position of an element in a sequence (Iterator::position)
Position(s, e) == (CHOOSE i \in 1..Len(s) : s[i] = e /\ \A j \in 1..(i-1) : s[j] # e) - 1

RECURSIVE Gcd(_, _)
Gcd(a, b) == IF b = 0 THEN a ELSE Gcd(b, a % b)

\* ----------------------------------------------------------------- inputs
\* NodeId values; ids are not indices
NodeIdOf(i) == 100 + i
AllIds == {NodeIdOf(i) : i \in 1..MaxNodes}

\* what a node carries besides id, x and y (name, description, category,
\* ...), as one opaque value
NameOf(i) == 1000 + i

\* workflow.nodes: the first n ids, each once; ids beyond n are unknown to
\* the workflow, so a connection naming one of them is dangling
NodeLists == {[i \in 1..n |-> NodeIdOf(i)] : n \in 0..MaxNodes}

\* a connection (source, target) over all ids, coded 0..MaxNodes^2-1
ConnOf(c) == [source |-> NodeIdOf((c \div MaxNodes) + 1), target |-> NodeIdOf((c % MaxNodes) + 1)]

\* workflow.connections: up to MaxConns connections, repetitions allowed,
\* listed in non-decreasing code order
ConnLists ==
    UNION {{[i \in 1..k |-> ConnOf(s[i])] :
              s \in {t \in [1..k -> 0..(MaxNodes * MaxNodes - 1)] :
                        \A i \in 1..(k-1) : t[i] <= t[i+1]}} : k \in 0..MaxConns}

\* DagLayout values: the default and three others (odd spacing, zero layer
\* spacing, spacing that cancels the node width)
Configs ==
    {[layer_spacing |-> DefaultLayerSpacing, node_spacing |-> DefaultNodeSpacing],
     [layer_spacing |-> 100, node_spacing |-> 25],
     [layer_spacing |-> 0, node_spacing |-> 60],
     [layer_spacing |-> 140, node_spacing |-> 0 - NodeWidth]}

\* cfg before apply has read self
Unread == [layer_spacing |-> 0, node_spacing |-> 0, unread |-> TRUE]

\* coordinates of the nodes on entry: all at the place a lone root is laid
\* out at, or all at a place no layout produces
EntryPoints == {[x2 |-> 0 - NodeWidth, y |-> 0], [x2 |-> 17, y |-> 35]}

VARIABLES
    nodes,           \* workflow.nodes: sequence of [id, name, x2, y]
    connections,     \* workflow.connections: sequence of [source, target]
    cfg,             \* self: [layer_spacing, node_spacing], Unread until apply reads it
    entry,           \* workflow.nodes as they were when apply was called
    pc,              \* position in apply
    graph,           \* petgraph Graph: [weights: seq of NodeId, edges: seq of <<src, tgt>>]
    index_map,       \* NodeId -> NodeIndex
    reverse_map,     \* NodeIndex -> NodeId
    sorted_indices,  \* result of toposort
    layers,          \* HashMap<NodeIndex, usize>
    nodes_by_layer,  \* Vec<Vec<NodeIndex>>
    grouped,         \* nodes_by_layer as it was right after grouping
    pass,            \* the pass of the crossing minimization, 0..Passes
    layer_idx,       \* the layer the pass is at
    barycenters      \* the (node, barycenter) vector of the latest re-sort, before the sort

vars == <<nodes, connections, cfg, entry, pc, graph, index_map, reverse_map,
          sorted_indices, layers, nodes_by_layer, grouped, pass, layer_idx, barycenters>>

\* ----------------------------------------------------- graph construction
EmptyGraph == [weights |-> <<>>, edges |-> <<>>]

\* NodeIndex values are 0-based, in insertion order
NodeIndices(g) == 0..(Len(g.weights) - 1)

\* lines 36-40: one graph node per workflow node, and the two maps
AddNodesGraph(ns) == [weights |-> [i \in 1..Len(ns) |-> ns[i].id], edges |-> <<>>]

\* a later insert of the same id overwrites the earlier one
AddNodesIndexMap(ns) ==
    [id \in {ns[i].id : i \in 1..Len(ns)} |->
        Max({i \in 1..Len(ns) : ns[i].id = id}) - 1]

AddNodesReverseMap(ns) == [idx \in 0..(Len(ns) - 1) |-> ns[idx + 1].id]

\* as AddEdges, but a connection from a node to itself adds no edge
RECURSIVE AddEdgesNoSelfLoop(_, _, _)
AddEdgesNoSelfLoop(g, imap, conns) ==
    IF conns = <<>> THEN g
    ELSE LET conn == Head(conns)
             g2 == IF /\ conn.source \in DOMAIN imap
                      /\ conn.target \in DOMAIN imap
                      /\ conn.source # conn.target
                   THEN [g EXCEPT !.edges = Append(@, <<imap[conn.source], imap[conn.target]>>)]
                   ELSE g
         IN AddEdgesNoSelfLoop(g2, imap, Tail(conns))

\* as AddEdges, but an unknown source id falls back to the first node
RECURSIVE AddEdgesSourceDefault(_, _, _)
AddEdgesSourceDefault(g, imap, conns) ==
    IF conns = <<>> THEN g
    ELSE LET conn == Head(conns)
             src == IF conn.source \in DOMAIN imap THEN imap[conn.source] ELSE 0
             g2 == IF conn.target \in DOMAIN imap
                   THEN [g EXCEPT !.edges = Append(@, <<src, imap[conn.target]>>)]
                   ELSE g
         IN AddEdgesSourceDefault(g2, imap, Tail(conns))

\* lines 43-49: a connection becomes an edge iff both ids are in index_map
RECURSIVE AddEdges(_, _, _)
AddEdges(g, imap, conns) ==
    IF conns = <<>> THEN g
    ELSE LET conn == Head(conns)
             g2 == IF conn.source \in DOMAIN imap /\ conn.target \in DOMAIN imap
                   THEN [g EXCEPT !.edges = Append(@, <<imap[conn.source], imap[conn.target]>>)]
                   ELSE g
         IN AddEdges(g2, imap, Tail(conns))

\* graph.neighbors_directed(node, Incoming): one entry per incoming edge, a
\* parent as often as it has edges to node (petgraph walks them newest first;
\* the callers take a maximum and an exact sum, so the order is immaterial)
IncomingNeighbors(g, v) ==
    LET inc == SelectSeq(g.edges, LAMBDA e : e[2] = v)
    IN [i \in 1..Len(inc) |-> inc[i][1]]

\* ---------------------------------------------------------------- toposort
\* petgraph::algo::toposort: Err(Cycle) iff the graph has a directed cycle
\* (a self-loop is one), else Ok(some order in which every edge goes forward)
RECURSIVE ReachableFrom(_, _)
ReachableFrom(g, S) ==
    LET next == S \cup {e[2] : e \in {f \in Range(g.edges) : f[1] \in S}}
    IN IF next = S THEN S ELSE ReachableFrom(g, next)

IsCyclic(g) ==
    \E e \in Range(g.edges) : e[1] \in ReachableFrom(g, {e[2]})

ToposortOrders(g) ==
    {s \in Orderings(NodeIndices(g)) :
        \A e \in Range(g.edges) : Position(s, e[1]) < Position(s, e[2])}

\* ---------------------------------------------------------- layer assignment
\* as AssignLayers, but a node takes its deepest parent's layer, not one more
RECURSIVE AssignLayersSameAsParent(_, _, _)
AssignLayersSameAsParent(g, order, ls) ==
    IF order = <<>> THEN ls
    ELSE LET node_idx == Head(order)
             parents == IncomingNeighbors(g, node_idx)
             layer == Max({0} \cup {ls[p] : p \in Range(parents) \cap DOMAIN ls})
         IN AssignLayersSameAsParent(g, Tail(order), ls @@ (node_idx :> layer))

\* as AssignLayers, but a node goes one below its shallowest parent
RECURSIVE AssignLayersShallowest(_, _, _)
AssignLayersShallowest(g, order, ls) ==
    IF order = <<>> THEN ls
    ELSE LET node_idx == Head(order)
             parents == IncomingNeighbors(g, node_idx)
             known == {ls[p] + 1 : p \in Range(parents) \cap DOMAIN ls}
             layer == IF known = {} THEN 0 ELSE CHOOSE m \in known : \A k \in known : m <= k
         IN AssignLayersShallowest(g, Tail(order), ls @@ (node_idx :> layer))

\* as AssignLayers, but the parents' layers add up instead of the largest
\* being taken
RECURSIVE SumOfLayers(_, _)
SumOfLayers(parents, ls) ==
    IF parents = <<>> THEN 0
    ELSE (IF Head(parents) \in DOMAIN ls THEN ls[Head(parents)] + 1 ELSE 0)
         + SumOfLayers(Tail(parents), ls)

RECURSIVE AssignLayersAddingUp(_, _, _)
AssignLayersAddingUp(g, order, ls) ==
    IF order = <<>> THEN ls
    ELSE LET node_idx == Head(order)
             layer == SumOfLayers(IncomingNeighbors(g, node_idx), ls)
         IN AssignLayersAddingUp(g, Tail(order), ls @@ (node_idx :> layer))

\* lines 61-70
RECURSIVE AssignLayers(_, _, _)
AssignLayers(g, order, ls) ==
    IF order = <<>> THEN ls
    ELSE LET node_idx == Head(order)
             parents == IncomingNeighbors(g, node_idx)
             layer == Max({0} \cup {ls[p] + 1 : p \in Range(parents) \cap DOMAIN ls})
         IN AssignLayers(g, Tail(order), ls @@ (node_idx :> layer))

\* lines 73-79: iter is the order in which the HashMap yields its keys
RECURSIVE GroupByLayer(_, _, _)
GroupByLayer(iter, ls, nbl) ==
    IF iter = <<>> THEN nbl
    ELSE LET node_idx == Head(iter)
             layer == ls[node_idx]
             grown == nbl \o [i \in 1..(layer + 1 - Len(nbl)) |-> <<>>]
         IN GroupByLayer(Tail(iter), ls, [grown EXCEPT ![layer + 1] = Append(@, node_idx)])

\* ------------------------------------------------------ crossing minimization
\* as Fraction, but the sum is divided by one less than the count
FractionCountLessOne(sum, count) ==
    IF count - 1 = 0 THEN <<IF sum = 0 THEN 0 ELSE 1, 0>>
    ELSE <<sum \div Gcd(sum, count - 1), (count - 1) \div Gcd(sum, count - 1)>>

\* the f32 quotient sum / count (sum >= 0, count >= 0), as a reduced
\* fraction; x / 0.0 is +inf, <<1, 0>>, and 0.0 / 0.0 is NaN, <<0, 0>>
Fraction(sum, count) ==
    IF count = 0 THEN <<IF sum = 0 THEN 0 ELSE 1, 0>>
    ELSE <<sum \div Gcd(sum, count), count \div Gcd(sum, count)>>

\* a.1.partial_cmp(&b.1) = Less; with a NaN partial_cmp is None, which
\* unwrap_or(Ordering::Equal) (update_layout_clippy.py line 31) makes Equal:
\* neither is less
FracLess(a, b) == a[1] * b[2] < b[1] * a[2]

\* lines 86-99: the barycenter of node w.r.t. the order prev of the previous layer
RECURSIVE SumPositions(_, _)
SumPositions(parents, prev) ==
    IF parents = <<>> THEN <<0, 0>>
    ELSE LET rest == SumPositions(Tail(parents), prev)
         IN IF Head(parents) \in Range(prev)
            THEN <<rest[1] + Position(prev, Head(parents)), rest[2] + 1>>
            ELSE rest

Barycenter(g, node, prev) ==
    LET sc == SumPositions(IncomingNeighbors(g, node), prev)
    IN IF sc[2] > 0 THEN Fraction(sc[1], sc[2]) ELSE <<0, 1>>

ComputeBarycenters(g, nbl, L) ==
    [i \in 1..Len(nbl[L + 1]) |-> <<nbl[L + 1][i], Barycenter(g, nbl[L + 1][i], nbl[L])>>]

\* as InsertStable, but the element goes before the elements equal to it
RECURSIVE InsertBeforeEqual(_, _)
InsertBeforeEqual(s, b) ==
    IF s = <<>> THEN <<b>>
    ELSE IF ~FracLess(Head(s)[2], b[2]) THEN <<b>> \o s
    ELSE <<Head(s)>> \o InsertBeforeEqual(Tail(s), b)

\* as InsertStable, but an element whose barycenter is already there is dropped
RECURSIVE InsertDroppingEqual(_, _)
InsertDroppingEqual(s, b) ==
    IF s = <<>> THEN <<b>>
    ELSE IF FracLess(b[2], Head(s)[2]) THEN <<b>> \o s
    ELSE IF ~FracLess(Head(s)[2], b[2]) THEN s
    ELSE <<Head(s)>> \o InsertDroppingEqual(Tail(s), b)

\* slice::sort_by: a stable sort
RECURSIVE InsertStable(_, _)
InsertStable(s, b) ==
    IF s = <<>> THEN <<b>>
    ELSE IF FracLess(b[2], Head(s)[2]) THEN <<b>> \o s
    ELSE <<Head(s)>> \o InsertStable(Tail(s), b)

RECURSIVE SortBy(_, _)
SortBy(s, acc) == IF s = <<>> THEN acc ELSE SortBy(Tail(s), InsertStable(acc, Head(s)))

\* as SortLayer, but the sorted nodes are stored one layer too low
SortLayerWrongSlot(g, nbl, L) ==
    LET sorted == SortBy(ComputeBarycenters(g, nbl, L), <<>>)
    IN [nbl EXCEPT ![L] = [i \in 1..Len(sorted) |-> sorted[i][1]]]

\* lines 84-104: the re-sort of layer L
SortLayer(g, nbl, L) ==
    LET sorted == SortBy(ComputeBarycenters(g, nbl, L), <<>>)
    IN [nbl EXCEPT ![L + 1] = [i \in 1..Len(sorted) |-> sorted[i][1]]]

\* ------------------------------------------------------ coordinate assignment
\* lines 110-117, x doubled
\* as LayerWidth, but with a gap after the last node too
LayerWidthTrailingGap(k, c) == k * (NodeWidth + c.node_spacing)

LayerWidth(k, c) == k * (NodeWidth + c.node_spacing) - c.node_spacing

\* as StartX2, but the width is not halved
StartX2NotHalved(k, c) == 0 - 2 * LayerWidth(k, c)

StartX2(k, c) == 0 - LayerWidth(k, c)

\* as NodeX2, but the step between neighbours leaves out the node width
NodeX2NoWidth(k, i, c) == StartX2(k, c) + 2 * i * c.node_spacing

NodeX2(k, i, c) == StartX2(k, c) + 2 * i * (NodeWidth + c.node_spacing)

\* as NodeY, but layers are counted from 1
NodeYFromOne(layer, c) == (layer + 1) * c.layer_spacing

NodeY(layer, c) == layer * c.layer_spacing

\* as AssignCoordinates, but the node list is rebuilt in layout order
AssignCoordinatesRebuilt(ns, nbl, rmap, c) ==
    LET places == {p \in (0..(Len(nbl) - 1)) \X (0..(Len(ns) - 1)) : p[2] < Len(nbl[p[1] + 1])}
        before(p) == Cardinality({q \in places : q[1] < p[1] \/ (q[1] = p[1] /\ q[2] < p[2])})
    IN [j \in 1..Cardinality(places) |->
           LET p == CHOOSE q \in places : before(q) = j - 1
               n == ns[CHOOSE h \in 1..Len(ns) : ns[h].id = rmap[nbl[p[1] + 1][p[2] + 1]]]
           IN [n EXCEPT !.x2 = NodeX2(Len(nbl[p[1] + 1]), p[2], c), !.y = NodeY(p[1], c)]]

\* lines 109-121: the node at (layer, i) is written through reverse_map and
\* the first workflow node carrying that id; a later write overwrites
AssignCoordinates(ns, nbl, rmap, c) ==
    [j \in 1..Len(ns) |->
        LET first == \A h \in 1..(j-1) : ns[h].id # ns[j].id
            hits == {p \in (0..(Len(nbl) - 1)) \X (0..(Len(ns) - 1)) :
                        /\ p[2] < Len(nbl[p[1] + 1])
                        /\ nbl[p[1] + 1][p[2] + 1] \in DOMAIN rmap
                        /\ rmap[nbl[p[1] + 1][p[2] + 1]] = ns[j].id}
        IN IF first /\ hits # {}
           THEN LET last == CHOOSE p \in hits :
                                \A q \in hits : q[1] < p[1] \/ (q[1] = p[1] /\ q[2] <= p[2])
                IN [ns[j] EXCEPT !.x2 = NodeX2(Len(nbl[last[1] + 1]), last[2], c),
                                 !.y = NodeY(last[1], c)]
           ELSE ns[j]]

\* ------------------------------------------------------------------ actions
\* the call of apply: a workflow of distinct node ids, all nodes at one entry
\* point; cfg is drawn from Configs where apply first reads self
Init ==
    /\ \E ids \in NodeLists, p \in EntryPoints :
          nodes = [i \in 1..Len(ids) |-> [id |-> ids[i], name |-> NameOf(i), x2 |-> p.x2, y |-> p.y]]
    /\ connections \in ConnLists
    /\ cfg = Unread
    /\ entry = nodes
    /\ pc = "apply"
    /\ graph = EmptyGraph
    /\ index_map = EmptyMap
    /\ reverse_map = EmptyMap
    /\ sorted_indices = <<>>
    /\ layers = EmptyMap
    /\ nodes_by_layer = <<>>
    /\ grouped = <<>>
    /\ pass = 0
    /\ layer_idx = 0
    /\ barycenters = <<>>

\* lines 27-29
ReturnEmpty ==
    /\ pc = "apply"
    /\ nodes = <<>>
    /\ pc' = "ret_empty"
    /\ UNCHANGED <<nodes, connections, cfg, entry, graph, index_map, reverse_map,
                   sorted_indices, layers, nodes_by_layer, grouped, pass, layer_idx, barycenters>>

\* lines 31-49
BuildGraph ==
    /\ pc = "apply"
    /\ nodes # <<>>
    /\ index_map' = AddNodesIndexMap(nodes)
    /\ reverse_map' = AddNodesReverseMap(nodes)
    /\ graph' = AddEdges(AddNodesGraph(nodes), index_map', connections)
    /\ pc' = "toposort"
    /\ UNCHANGED <<nodes, connections, cfg, entry, sorted_indices, layers,
                   nodes_by_layer, grouped, pass, layer_idx, barycenters>>

\* lines 52-58, Err arm
ToposortErr ==
    /\ pc = "toposort"
    /\ IsCyclic(graph)
    /\ pc' = "ret_cycle"
    /\ UNCHANGED <<nodes, connections, cfg, entry, graph, index_map, reverse_map,
                   sorted_indices, layers, nodes_by_layer, grouped, pass, layer_idx, barycenters>>

\* lines 52-58, Ok arm
ToposortOk ==
    /\ pc = "toposort"
    /\ ~IsCyclic(graph)
    /\ sorted_indices' \in ToposortOrders(graph)
    /\ pc' = "layering"
    /\ UNCHANGED <<nodes, connections, cfg, entry, graph, index_map, reverse_map,
                   layers, nodes_by_layer, grouped, pass, layer_idx, barycenters>>

\* lines 61-70
LayerAssignment ==
    /\ pc = "layering"
    /\ layers' = AssignLayers(graph, sorted_indices, EmptyMap)
    /\ pc' = "grouping"
    /\ UNCHANGED <<nodes, connections, cfg, entry, graph, index_map, reverse_map,
                   sorted_indices, nodes_by_layer, grouped, pass, layer_idx, barycenters>>

\* lines 73-79, and the entry into the loops of lines 82-83: with a single
\* layer the inner range 1..len is empty in each of the passes
Grouping ==
    /\ pc = "grouping"
    /\ \E iter \in Orderings(DOMAIN layers) :
          nodes_by_layer' = GroupByLayer(iter, layers, <<>>)
    /\ grouped' = nodes_by_layer'
    /\ IF Len(nodes_by_layer') > 1
       THEN pass' = 0 /\ layer_idx' = 1 /\ pc' = "crossing"
       ELSE pass' = Passes /\ layer_idx' = 1 /\ pc' = "coordinates"
    /\ UNCHANGED <<nodes, connections, cfg, entry, graph, index_map, reverse_map,
                   sorted_indices, layers, barycenters>>

\* lines 83-105: one iteration of the inner loop, then the loop heads
CrossingStep ==
    /\ pc = "crossing"
    /\ pass < Passes
    /\ layer_idx < Len(nodes_by_layer)
    /\ barycenters' = ComputeBarycenters(graph, nodes_by_layer, layer_idx)
    /\ nodes_by_layer' = SortLayer(graph, nodes_by_layer, layer_idx)
    /\ IF layer_idx + 1 < Len(nodes_by_layer)
       THEN layer_idx' = layer_idx + 1 /\ pass' = pass /\ pc' = "crossing"
       ELSE /\ layer_idx' = 1
            /\ pass' = pass + 1
            /\ pc' = IF pass + 1 < Passes THEN "crossing" ELSE "coordinates"
    /\ UNCHANGED <<nodes, connections, cfg, entry, graph, index_map, reverse_map,
                   sorted_indices, layers, grouped>>

\* lines 109-122; the two fields of self are read here and nowhere before
CoordinateAssignment ==
    /\ pc = "coordinates"
    /\ cfg' \in Configs
    /\ nodes' = AssignCoordinates(nodes, nodes_by_layer, reverse_map, cfg')
    /\ pc' = "ret_end"
    /\ UNCHANGED <<connections, entry, graph, index_map, reverse_map,
                   sorted_indices, layers, nodes_by_layer, grouped, pass, layer_idx, barycenters>>

Next ==
    \/ ReturnEmpty
    \/ BuildGraph
    \/ ToposortErr
    \/ ToposortOk
    \/ LayerAssignment
    \/ Grouping
    \/ CrossingStep
    \/ CoordinateAssignment

Spec == Init /\ [][Next]_vars

TypeOK == pc \in {"apply", "toposort", "layering", "grouping", "crossing", "coordinates",
                  "ret_empty", "ret_cycle", "ret_end"}

\* ------------------------------------------------------- the phases as a whole
\* lines 83-105: one pass, layers L, L+1, ... in ascending order
RECURSIVE SweepFrom(_, _, _)
SweepFrom(g, nbl, L) ==
    IF L >= Len(nbl) THEN nbl ELSE SweepFrom(g, SortLayer(g, nbl, L), L + 1)

\* lines 82-106: the passes that remain after n of them
RECURSIVE CrossingMinimization(_, _, _)
CrossingMinimization(g, nbl, n) ==
    IF n >= Passes THEN nbl ELSE CrossingMinimization(g, SweepFrom(g, nbl, 1), n + 1)

\* ------------------------------------------------ vocabulary of the properties
Returned == pc \in {"ret_empty", "ret_cycle", "ret_end"}

Layered == pc \in {"grouping", "crossing", "coordinates", "ret_end"}

Grouped == pc \in {"crossing", "coordinates", "ret_end"}

IdsOf(ns) == {ns[i].id : i \in 1..Len(ns)}

\* positions in the connection list of the connections with both ends in the node list
ResolvedAt(conns, ns) ==
    {j \in 1..Len(conns) : conns[j].source \in IdsOf(ns) /\ conns[j].target \in IdsOf(ns)}

\* the resolved edge set, as pairs of ids
ResolvedEdges(conns, ns) == {<<conns[j].source, conns[j].target>> : j \in ResolvedAt(conns, ns)}

PredIds(E, id) == {e[1] : e \in {f \in E : f[2] = id}}

RECURSIVE AncestorIds(_, _)
AncestorIds(E, S) ==
    LET more == S \cup UNION {PredIds(E, id) : id \in S}
    IN IF more = S THEN S ELSE AncestorIds(E, more)

\* some edge of E lies on a directed cycle (a self-loop is one)
HasCycle(E) == \E e \in E : e[2] \in AncestorIds(E, {e[1]})

NodeWithId(id) == nodes[CHOOSE j \in 1..Len(nodes) : nodes[j].id = id]

LayerOfId(id) == layers[index_map[id]]

MyEdges == ResolvedEdges(connections, entry)

\* ---------------------------------------------------------------------- C1
\* C1: a workflow whose resolved edge set has a directed cycle (a self-loop
\* included) keeps every node's x and y as they were on entry, at every point
\* of apply and on return, and apply returns through the cycle arm.
C1_CycleRejection ==
    HasCycle(MyEdges) =>
        /\ nodes = entry
        /\ Returned => pc = "ret_cycle"

\* apply has returned on a graph whose only cycles are self-loops, entered
\* with coordinates no layout produces
C1_Witness ==
    /\ pc = "ret_cycle"
    /\ \E e \in MyEdges : e[1] = e[2]
    /\ ~HasCycle({e \in MyEdges : e[1] # e[2]})
    /\ Len(nodes) >= 2
    /\ \A j \in 1..Len(entry) : entry[j].y = 35

\* ---------------------------------------------------------------------- C2
\* C2: once layering is done on an acyclic workflow, every resolved edge
\* u -> v has layer(v) > layer(u); on return, with layer_spacing > 0,
\* y(v) >= y(u) + layer_spacing.
C2_LayeringCorrectness ==
    /\ Layered => \A e \in MyEdges : LayerOfId(e[2]) > LayerOfId(e[1])
    /\ (pc = "ret_end" /\ cfg.layer_spacing > 0) =>
          \A e \in MyEdges : NodeWithId(e[2]).y >= NodeWithId(e[1]).y + cfg.layer_spacing

\* returned with positive layer spacing on a graph with an edge that skips a layer
C2_Witness ==
    /\ pc = "ret_end"
    /\ cfg.layer_spacing > 0
    /\ \E e \in MyEdges : LayerOfId(e[2]) > LayerOfId(e[1]) + 1

\* ---------------------------------------------------------------------- C3
\* C3: apply is deterministic: whatever order the layer map yields its keys
\* in, grouping gives the order this run got, and the coordinates written
\* are the ones this run wrote.
C3_Determinism ==
    /\ Grouped =>
          \A iter \in Orderings(DOMAIN layers) : GroupByLayer(iter, layers, <<>>) = grouped
    /\ pc = "ret_end" =>
          \A iter \in Orderings(DOMAIN layers) :
              AssignCoordinates(entry,
                                CrossingMinimization(graph, GroupByLayer(iter, layers, <<>>), 0),
                                reverse_map, cfg) = nodes

\* ---------------------------------------------------------------------- C4
\* C4: on return from an acyclic workflow with node_spacing >= 0 and
\* layer_spacing > 0 no two distinct nodes have the same (x, y): two nodes
\* of one layer are at least 240 + node_spacing apart in x, two nodes of
\* different layers differ in y.
Abs(n) == IF n < 0 THEN 0 - n ELSE n

C4_NonOverlap ==
    (pc = "ret_end" /\ cfg.node_spacing >= 0 /\ cfg.layer_spacing > 0) =>
        \A i, j \in 1..Len(nodes) :
            i # j =>
                /\ <<nodes[i].x2, nodes[i].y>> # <<nodes[j].x2, nodes[j].y>>
                /\ LayerOfId(nodes[i].id) = LayerOfId(nodes[j].id) =>
                      Abs(nodes[i].x2 - nodes[j].x2) >= 2 * (NodeWidth + cfg.node_spacing)
                /\ LayerOfId(nodes[i].id) # LayerOfId(nodes[j].id) => nodes[i].y # nodes[j].y

\* returned with two nodes in one layer and a third in another
C4_Witness ==
    /\ pc = "ret_end"
    /\ cfg.node_spacing >= 0
    /\ cfg.layer_spacing > 0
    /\ \E i, j, k \in 1..Len(nodes) :
          /\ i # j
          /\ LayerOfId(nodes[i].id) = LayerOfId(nodes[j].id)
          /\ LayerOfId(nodes[k].id) # LayerOfId(nodes[i].id)

\* ---------------------------------------------------------------------- C5
\* C5: once layering is done, a node with no incoming resolved edge has
\* layer 0, every other node has layer 1 + the largest layer of its direct
\* predecessors, and the layer is the number of edges of the longest path
\* that ends at the node.
RECURSIVE LongestPathTo(_, _)
LongestPathTo(E, id) ==
    IF PredIds(E, id) = {} THEN 0
    ELSE 1 + Max({LongestPathTo(E, p) : p \in PredIds(E, id)})

C5_LongestPathLayering ==
    (Layered /\ ~HasCycle(MyEdges)) =>
        \A id \in IdsOf(entry) :
            /\ PredIds(MyEdges, id) = {} => LayerOfId(id) = 0
            /\ PredIds(MyEdges, id) # {} =>
                  LayerOfId(id) = 1 + Max({LayerOfId(p) : p \in PredIds(MyEdges, id)})
            /\ LayerOfId(id) = LongestPathTo(MyEdges, id)

\* layered, with a node whose direct predecessors lie in different layers
C5_Witness ==
    /\ Layered
    /\ \E id \in IdsOf(entry) :
          \E p, q \in PredIds(MyEdges, id) : LayerOfId(p) < LayerOfId(q)

\* ---------------------------------------------------------------------- C6
\* C6: on return from an acyclic workflow every node without an incoming
\* resolved edge (no edge at all, or only dangling incoming connections) is
\* in layer 0 and has y = 0.
C6_RootPlacement ==
    pc = "ret_end" =>
        \A id \in IdsOf(entry) :
            PredIds(MyEdges, id) = {} => (LayerOfId(id) = 0 /\ NodeWithId(id).y = 0)

\* returned, entered with y # 0, with an isolated node, a node whose only
\* incoming connection is dangling, and a node that is not a root
C6_Witness ==
    /\ pc = "ret_end"
    /\ \A j \in 1..Len(entry) : entry[j].y # 0
    /\ cfg.layer_spacing > 0
    /\ \E id \in IdsOf(entry) :
          /\ PredIds(MyEdges, id) = {}
          /\ \E j \in 1..Len(connections) :
                connections[j].target = id /\ connections[j].source \notin IdsOf(entry)
    /\ \E id \in IdsOf(entry) :
          \A j \in 1..Len(connections) : connections[j].target # id /\ connections[j].source # id
    /\ \E id \in IdsOf(entry) : LayerOfId(id) > 0

\* ---------------------------------------------------------------------- C7
\* the indices the layer map puts in layer L, and the doubled x written to them
LayerMembers(L) == {idx \in DOMAIN layers : layers[idx] = L}

LayerX2(L) == {NodeWithId(reverse_map[idx]).x2 : idx \in LayerMembers(L)}

MinOf(S) == CHOOSE m \in S : \A k \in S : m <= k

UsedLayers == {layers[idx] : idx \in DOMAIN layers}

\* C7 as stated: on return, in every layer the smallest and the largest x
\* are symmetric about 0, min x = -(max x).
C7_MinMaxSymmetric ==
    pc = "ret_end" =>
        \A L \in UsedLayers : MinOf(LayerX2(L)) = 0 - Max(LayerX2(L))

\* C7 amended: on return, in every layer the span from the smallest x to the
\* largest x plus the node width 240 is symmetric about 0,
\* min x = -(max x + 240).
C7_ExtentSymmetric ==
    pc = "ret_end" =>
        \A L \in UsedLayers : MinOf(LayerX2(L)) = 0 - (Max(LayerX2(L)) + 2 * NodeWidth)

\* returned with an odd node spacing, a layer of two nodes and a layer of one
C7_Witness ==
    /\ pc = "ret_end"
    /\ cfg.node_spacing % 2 = 1
    /\ \E L \in UsedLayers : Cardinality(LayerMembers(L)) = 2
    /\ \E L \in UsedLayers : Cardinality(LayerMembers(L)) = 1

\* ---------------------------------------------------------------------- C8
IsDangling(conn, ns) == conn.source \notin IdsOf(ns) \/ conn.target \notin IdsOf(ns)

WithoutDangling(conns, ns) == SelectSeq(conns, LAMBDA conn : ~IsDangling(conn, ns))

\* the graph of the workflow with every dangling connection removed
CleanGraph == AddEdges(AddNodesGraph(entry), AddNodesIndexMap(entry), WithoutDangling(connections, entry))

\* C8: a dangling connection has no effect: the graph built is the graph of
\* the workflow without its dangling connections, apply takes the cycle
\* return only if the resolved edges have a cycle, and the layers and the
\* coordinates written are those the workflow without its dangling
\* connections gets under the same grouping order.
C8_DanglingDropped ==
    /\ pc \notin {"apply", "ret_empty"} => graph = CleanGraph
    /\ pc = "ret_cycle" => HasCycle(ResolvedEdges(WithoutDangling(connections, entry), entry))
    /\ pc = "grouping" =>
          \A order \in ToposortOrders(CleanGraph) : layers = AssignLayers(CleanGraph, order, EmptyMap)
    /\ pc = "ret_end" =>
          nodes = AssignCoordinates(entry, CrossingMinimization(CleanGraph, grouped, 0),
                                    AddNodesReverseMap(entry), cfg)

\* returned from a layout of two layers or more with a dangling connection
\* whose target is a node of the workflow
C8_Witness ==
    /\ pc = "ret_end"
    /\ Len(nodes_by_layer) >= 2
    /\ \E j \in 1..Len(connections) :
          connections[j].source \notin IdsOf(entry) /\ connections[j].target \in IdsOf(entry)

\* ---------------------------------------------------------------------- C9
\* C9: on return from an acyclic workflow the node at 0-based position i of
\* the final order of layer L, a layer of k nodes, has
\* x = -(k*(240+node_spacing) - node_spacing)/2 + i*(240+node_spacing) and
\* y = L*layer_spacing, and every node of the workflow is at one such place.
C9_CoordinateFormula ==
    pc = "ret_end" =>
        /\ \A L \in 0..(Len(nodes_by_layer) - 1) :
              \A i \in 0..(Len(nodes_by_layer[L + 1]) - 1) :
                  LET k == Len(nodes_by_layer[L + 1])
                      n == NodeWithId(reverse_map[nodes_by_layer[L + 1][i + 1]])
                  IN /\ n.x2 = 0 - (k * (NodeWidth + cfg.node_spacing) - cfg.node_spacing)
                                 + 2 * i * (NodeWidth + cfg.node_spacing)
                     /\ n.y = L * cfg.layer_spacing
        /\ \A j \in 1..Len(nodes) :
              \E L \in 0..(Len(nodes_by_layer) - 1) :
                  \E i \in 0..(Len(nodes_by_layer[L + 1]) - 1) :
                      reverse_map[nodes_by_layer[L + 1][i + 1]] = nodes[j].id

\* returned, entered with coordinates no layout produces, with two nodes in
\* one layer and a layer below it
C9_Witness ==
    /\ pc = "ret_end"
    /\ \A j \in 1..Len(entry) : entry[j].y = 35
    /\ Len(nodes_by_layer) >= 2
    /\ \E L \in 1..Len(nodes_by_layer) : Len(nodes_by_layer[L]) >= 2
    /\ \A j \in 1..Len(nodes) : <<nodes[j].x2, nodes[j].y>> # <<entry[j].x2, entry[j].y>>

\* --------------------------------------------------------------------- C10
\* a re-sort has been done; barycenters holds its vector
SortDone == barycenters # <<>>

\* the layer the latest re-sort was of (the loop variables have moved on)
LastSorted == IF layer_idx > 1 THEN layer_idx - 1 ELSE Len(nodes_by_layer) - 1

\* the order of the layer before it, the order the re-sort started from,
\* and the order it left
PrevOrder == nodes_by_layer[LastSorted]

OldOrder == [i \in 1..Len(barycenters) |-> barycenters[i][1]]

NewOrder == nodes_by_layer[LastSorted + 1]

FracEq(a, b) == a[1] * b[2] = b[1] * a[2]

RECURSIVE SumOfPositions(_, _)
SumOfPositions(S, prev) ==
    IF S = {} THEN 0
    ELSE LET p == CHOOSE q \in S : TRUE
         IN Position(prev, p) + SumOfPositions(S \ {p}, prev)

\* the average position of the direct predecessors of node in prev, each
\* predecessor counted once
PredecessorAverage(node, prev) ==
    LET P == {p \in Range(prev) : <<reverse_map[p], reverse_map[node]>> \in MyEdges}
    IN IF P = {} THEN <<0, 1>> ELSE <<SumOfPositions(P, prev), Cardinality(P)>>

RECURSIVE SumOfSourcePositions(_, _)
SumOfSourcePositions(J, prev) ==
    IF J = {} THEN 0
    ELSE LET j == CHOOSE q \in J : TRUE
         IN Position(prev, index_map[connections[j].source]) + SumOfSourcePositions(J \ {j}, prev)

\* the average position of the sources of the connections into node from
\* prev, each connection of the list counted, a repeated one as often as it
\* is repeated
ConnectionAverage(node, prev) ==
    LET J == {j \in ResolvedAt(connections, entry) :
                 /\ connections[j].target = reverse_map[node]
                 /\ index_map[connections[j].source] \in Range(prev)}
    IN IF J = {} THEN <<0, 1>> ELSE <<SumOfSourcePositions(J, prev), Cardinality(J)>>

\* new is old in ascending order of key, equal keys in their old order
StableAscending(old, new, key(_)) ==
    /\ Len(new) = Len(old)
    /\ Range(new) = Range(old)
    /\ \A a, b \in 1..Len(new) :
          a < b =>
              /\ ~FracLess(key(new[b]), key(new[a]))
              /\ FracEq(key(new[a]), key(new[b])) => Position(old, new[a]) < Position(old, new[b])

\* the loop variables name a layer L >= 1 of one of the 4 passes while the
\* passes run, and all 4 passes are over after them
PassesInOrder ==
    /\ pc = "crossing" => (pass \in 0..(Passes - 1) /\ layer_idx \in 1..(Len(nodes_by_layer) - 1))
    /\ pc \in {"coordinates", "ret_end"} => pass = Passes
    /\ (Grouped /\ Len(nodes_by_layer) > 1 /\ (pass > 0 \/ layer_idx > 1)) => SortDone

\* C10 as stated: each re-sort orders layer L by ascending barycenter, the
\* barycenter of a node being the average of the positions, in the current
\* order of layer L-1, of its direct predecessors there (0 if none), also
\* when a connection is repeated; equal barycenters keep their order.
C10_PredecessorAverage ==
    /\ PassesInOrder
    /\ SortDone =>
          /\ \A i \in 1..Len(barycenters) :
                FracEq(barycenters[i][2], PredecessorAverage(barycenters[i][1], PrevOrder))
          /\ StableAscending(OldOrder, NewOrder, LAMBDA n : PredecessorAverage(n, PrevOrder))

\* C10 amended: each re-sort orders layer L by ascending barycenter, the
\* barycenter of a node being the average of the positions, in the current
\* order of layer L-1, of the sources of its incoming connections from
\* layer L-1, a repeated connection counted once per repetition (0 if there
\* is none); equal barycenters keep their order.
C10_ConnectionAverage ==
    /\ PassesInOrder
    /\ SortDone =>
          /\ \A i \in 1..Len(barycenters) :
                FracEq(barycenters[i][2], ConnectionAverage(barycenters[i][1], PrevOrder))
          /\ StableAscending(OldOrder, NewOrder, LAMBDA n : ConnectionAverage(n, PrevOrder))

\* a re-sort has moved a node with the larger barycenter behind one with the
\* smaller
C10_Witness ==
    /\ SortDone
    /\ Len(NewOrder) >= 2
    /\ NewOrder # OldOrder
    /\ \E i \in 1..Len(barycenters) : barycenters[i][2][1] > 0

\* --------------------------------------------------------------------- C11
\* C11: layer 0 is the fixed anchor: from grouping on, through every re-sort
\* of the four passes and up to the return, the order of layer 0 is the
\* order grouping gave it.
C11_LayerZeroFixed ==
    Grouped => nodes_by_layer[1] = grouped[1]

\* the four passes are over, layer 0 has two nodes or more, and a re-sort
\* has changed the order of a layer below it
C11_Witness ==
    /\ pc \in {"coordinates", "ret_end"}
    /\ pass = Passes
    /\ Len(nodes_by_layer) >= 2
    /\ Len(nodes_by_layer[1]) >= 2
    /\ nodes_by_layer # grouped

\* --------------------------------------------------------------------- C12
\* a barycenter that is a number (neither NaN nor infinite)
IsDefinedNumber(f) == f[2] > 0

\* how far apply has come; every step takes it further, and it is bounded
Progress ==
    CASE pc = "apply" -> 0
      [] pc = "toposort" -> 1
      [] pc = "layering" -> 2
      [] pc = "grouping" -> 3
      [] pc = "crossing" -> 4 + pass * (MaxNodes + 1) + layer_idx
      [] pc = "coordinates" -> 4 + Passes * (MaxNodes + 1) + 1
      [] OTHER -> 4 + Passes * (MaxNodes + 1) + 2

\* the guard of some action holds: apply can take its next step
CanStep ==
    \/ pc = "apply"
    \/ pc = "toposort" /\ (IsCyclic(graph) \/ ToposortOrders(graph) # {})
    \/ pc = "layering" /\ Range(sorted_indices) = NodeIndices(graph)
    \/ pc = "grouping" /\ DOMAIN layers = NodeIndices(graph)
    \/ pc = "crossing" /\ pass < Passes /\ layer_idx < Len(nodes_by_layer)
    \/ pc = "coordinates" /\ Range(nodes_by_layer[1]) \subseteq DOMAIN reverse_map

C12_NoFailureState ==
    /\ ~Returned => CanStep
    /\ \A i \in 1..Len(barycenters) : IsDefinedNumber(barycenters[i][2])
    /\ pc = "crossing" => layer_idx - 1 \in 0..(Len(nodes_by_layer) - 1)
    /\ entry = <<>> => (pc \in {"apply", "ret_empty"} /\ nodes = <<>>)
    /\ Progress \in 0..(4 + Passes * (MaxNodes + 1) + 2)

\* C12: apply fails on no input: from every state that is not a return a
\* step of apply is possible (no panic), every step takes apply further
\* towards its return, every barycenter handed to the sort is a defined
\* number, and an empty node list returns at once with nothing changed.
C12_NoFailure ==
    [](C12_NoFailureState) /\ [][Progress' > Progress]_vars

\* a re-sort has been done on a workflow that has a self-loop-free graph, a
\* repeated connection and a dangling connection
C12_Witness ==
    /\ SortDone
    /\ \E j \in 1..(Len(connections) - 1) : connections[j] = connections[j + 1]
    /\ \E j \in 1..Len(connections) : IsDangling(connections[j], entry)
    /\ \E i \in 1..Len(barycenters) : barycenters[i][2][1] = 0

\* --------------------------------------------------------------------- C13
\* a node without its coordinates
Uncoordinated(n) == [n EXCEPT !.x2 = 0, !.y = 0]

\* C13: every step of apply, on an acyclic, a cyclic or an empty workflow,
\* leaves the connection list as it is and the node list with the same
\* length, the same order, and every node's id and other attributes; only
\* x and y of nodes change.
C13_Frame ==
    [][/\ connections' = connections
       /\ Len(nodes') = Len(nodes)
       /\ \A j \in 1..Len(nodes) : Uncoordinated(nodes'[j]) = Uncoordinated(nodes[j])]_vars

\* returned from a layout that has moved every node, in which the last node
\* of the list is not last in layout order
C13_Witness ==
    /\ pc = "ret_end"
    /\ Len(nodes) >= 3
    /\ connections # <<>>
    /\ \A j \in 1..Len(nodes) : <<nodes[j].x2, nodes[j].y>> # <<entry[j].x2, entry[j].y>>
    /\ LayerOfId(nodes[Len(nodes)].id) = 0
    /\ Len(nodes_by_layer) >= 2

\* --------------------------------------------------------------------- C14
DefaultConfig == [layer_spacing |-> DefaultLayerSpacing, node_spacing |-> DefaultNodeSpacing]

\* the workflow is the simple chain ch[1] -> ch[2] -> ... over all its nodes:
\* one connection per link and no other connection
IsChain(ch) ==
    /\ Len(connections) = Len(ch) - 1
    /\ {<<connections[j].source, connections[j].target>> : j \in 1..Len(connections)}
          = {<<ch[i], ch[i + 1]>> : i \in 1..(Len(ch) - 1)}

\* C14: on return from a simple chain n0 -> n1 -> ... -> n(m-1) laid out
\* with the default spacing, node ni is in layer i, with y = 140*i and
\* x = -120.
C14_LinearChain ==
    (pc = "ret_end" /\ cfg = DefaultConfig) =>
        \A ch \in Orderings(IdsOf(entry)) :
            IsChain(ch) =>
                \A i \in 1..Len(ch) :
                    /\ LayerOfId(ch[i]) = i - 1
                    /\ NodeWithId(ch[i]).y = 140 * (i - 1)
                    /\ NodeWithId(ch[i]).x2 = 2 * (0 - 120)

\* returned with the default spacing from a chain of three nodes or more
\* that does not run in the order of the node list
C14_Witness ==
    /\ pc = "ret_end"
    /\ cfg = DefaultConfig
    /\ Len(entry) >= 3
    /\ \E ch \in Orderings(IdsOf(entry)) :
          IsChain(ch) /\ ch # [i \in 1..Len(entry) |-> entry[i].id]

\* --------------------------------------------------------------------- C15
\* C15: the orders the first pass leaves are final: no re-sort of the
\* passes 2, 3 and 4 changes the order of any layer, and on return the
\* orders are those one sweep over the grouped lists gives.
C15_FixedPointAfterOnePass ==
    /\ [][(pc = "crossing" /\ pass >= 1) => nodes_by_layer' = nodes_by_layer]_vars
    /\ [](pc = "ret_end" => nodes_by_layer = SweepFrom(graph, grouped, 1))

\* the second pass is under way after a first pass that changed an order
C15_Witness ==
    /\ pc = "crossing"
    /\ pass = 1
    /\ nodes_by_layer # grouped

\* --------------------------------------------------------------------- C16
\* C16: once layering is done on a non-empty acyclic graph the layers in
\* use are exactly 0..maxLayer, every node of a layer L >= 1 has a direct
\* predecessor in layer L-1, no list of nodes_by_layer is empty, and every
\* node a re-sort has handled had a predecessor counted (the barycenter-0
\* branch was not taken).
C16_LayerStructure ==
    /\ Layered =>
          /\ UsedLayers = 0..Max(UsedLayers)
          /\ \A id \in IdsOf(entry) :
                LayerOfId(id) >= 1 =>
                    \E p \in PredIds(MyEdges, id) : LayerOfId(p) = LayerOfId(id) - 1
    /\ Grouped =>
          /\ Len(nodes_by_layer) = Max(UsedLayers) + 1
          /\ \A L \in 1..Len(nodes_by_layer) : nodes_by_layer[L] # <<>>
    /\ SortDone =>
          \A n \in Range(NewOrder) :
              SumPositions(IncomingNeighbors(graph, n), PrevOrder)[2] > 0

\* a re-sort of layer 2 has been done on a graph in which a node of layer 2
\* also has a predecessor in layer 0
C16_Witness ==
    /\ SortDone
    /\ LastSorted = 2
    /\ \E e \in MyEdges : LayerOfId(e[2]) = 2 /\ LayerOfId(e[1]) = 0

\* --------------------------------------------------------------------- C17
\* the lists hold every graph node exactly once, each in the list of its layer
IsPartition(nbl) ==
    /\ \A idx \in DOMAIN layers :
          /\ layers[idx] + 1 \in 1..Len(nbl)
          /\ Cardinality({i \in 1..Len(nbl[layers[idx] + 1]) : nbl[layers[idx] + 1][i] = idx}) = 1
    /\ \A L \in 1..Len(nbl) : \A i \in 1..Len(nbl[L]) :
          nbl[L][i] \in DOMAIN layers /\ layers[nbl[L][i]] = L - 1
    /\ DOMAIN layers = NodeIndices(graph)

\* b is a rearrangement of a
IsPermutation(a, b) ==
    /\ Len(a) = Len(b)
    /\ \A e \in Range(a) \cup Range(b) :
          Cardinality({i \in 1..Len(a) : a[i] = e}) = Cardinality({i \in 1..Len(b) : b[i] = e})

\* C17: from grouping to the return the layer lists are a partition of the
\* node set by layer, and every re-sort rearranges the list of the one
\* layer it is at and leaves the other lists as they are.
C17_PartitionPreserved ==
    /\ [](Grouped => IsPartition(nodes_by_layer))
    /\ [][pc = "crossing" =>
            /\ Len(nodes_by_layer') = Len(nodes_by_layer)
            /\ \A L \in 1..Len(nodes_by_layer) :
                  IF L = layer_idx + 1
                  THEN IsPermutation(nodes_by_layer[L], nodes_by_layer'[L])
                  ELSE nodes_by_layer'[L] = nodes_by_layer[L]]_vars

\* the first pass is just over and its last re-sort has rearranged its
\* layer: the list differs from the one grouping left and holds the same nodes
C17_Witness ==
    /\ SortDone
    /\ pass = 1
    /\ layer_idx = 1
    /\ NewOrder # OldOrder
    /\ OldOrder = grouped[LastSorted + 1]
    /\ IsPermutation(OldOrder, NewOrder)
    /\ IsPartition(nodes_by_layer)

====
